---------------------------- MODULE Spec2Model ----------------------------
(***************************************************************************)
(* WaitTask / TaskManager (controller side) and the three injected pollers *)
(* (MutationPoller, RAFPoller, IntervalPoller) that run in the page.       *)
(*                                                                         *)
(* A remote call (evaluate / evaluateHandle / dispose) is a suspension     *)
(* point of the calling async function.  The page executes the synchronous *)
(* part of the called code when the call is dispatched (calls are executed *)
(* in dispatch order); the response is delivered to the controller in a    *)
(* later step.                                                             *)
(***************************************************************************)
EXTENDS Integers, FiniteSets, Sequences, TLC

(***************************************************************************)
(* Bounds of the model.                                                    *)
(***************************************************************************)
NumTasks   == 1     \* WaitTasks constructed in Spec and SpecLive
NumManaged == 2     \* WaitTasks constructed in SpecManager
MaxRuns    == 2     \* rerun() activations per task (the constructor's included)
MaxNav     == 1     \* context replacements (navigations)
MaxDom     == 1     \* page mutations; the predicate returns the mutation count
MaxEvals   == 1     \* overlapping watch-callback evaluations of one poller
MaxChanges == 2     \* page mutations in SpecPoller
MaxOverlap == 2     \* overlapping watch-callback evaluations in SpecPoller

TaskIds == 1 .. (IF NumManaged > NumTasks THEN NumManaged ELSE NumTasks)
RunIds  == 1 .. MaxRuns

\* Activations of terminate() that are not the continuation of a run: the
\* timeout callback and TaskManager.terminateAll.
TimerProc == 0
AllProc   == MaxRuns + 1
ProcIds   == 0 .. (MaxRuns + 1)

VARIABLES
  tasks,          \* TaskManager.#tasks
  opts,           \* per task: the constructor's options, NoOpts before construction
  timer,          \* per task: WaitTask.#timeout  "none" | "armed" | "fired" | "cleared"
  result,         \* per task: WaitTask.#result (a deferred promise)
  pollerRef,      \* per task: WaitTask.#poller, 0 is undefined, k the handle made by run k
  frames,         \* per task and activation: position of the async function
  pollers,        \* per task and run: the remote poller object and its handle
  dom,            \* the page: number of mutations so far (the predicate's value)
  navs,           \* number of context replacements so far
  detached,       \* the frame has been detached
  boundFunctions, \* IsolatedWorld._boundFunctions (names of the bound functions)
  rerunAllCall    \* the call of TaskManager.rerunAll() that is followed to its end

vars == <<tasks, opts, timer, result, pollerRef, frames, pollers, dom, navs,
          detached, boundFunctions, rerunAllCall>>

(***************************************************************************)
(* Values.  A thrown value is an Error (with a message, given as the set   *)
(* of the message fragments the code looks for) or any other JS value      *)
(* (truthy or falsy).                                                      *)
(***************************************************************************)
Value(isErr, tr, m, n) == [isError |-> isErr, truthy |-> tr, msg |-> m, ms |-> n]

Undefined == Value(FALSE, FALSE, {}, 0)

MkError(m) == Value(TRUE, TRUE, m, 0)

FragDetached  == "Execution context is not available in detached frame"
FragDestroyed == "Execution context was destroyed"
FragNotFound  == "Cannot find context with specified id"

DetachedError  == MkError({FragDetached})
DestroyedError == MkError({FragDestroyed})
NotFoundError  == MkError({FragNotFound})
ReleasedError  == MkError({"Cannot find object with given id"})
ProtocolError  == MkError({"Protocol error"})
TypeError      == MkError({"Cannot read properties of undefined"})

\* new TimeoutError(`Waiting failed: ${options.timeout}ms exceeded`)
TimeoutError(ms) == Value(TRUE, TRUE, {"Waiting failed", "ms exceeded"}, ms)

\* new Error('Waiting failed: Frame detached')
FrameDetachedError == MkError({"Waiting failed: Frame detached"})

\* new Error('Polling stopped'), and the failure of the evaluation that awaits it
PollingStopped == MkError({"Polling stopped"})

\* new Error('Polling never started.') raised by assert
NeverStarted == MkError({"Polling never started."})

\* the error the owner passes to terminateAll
OwnerError == MkError({"waitForFunction failed: frame got detached."})

Includes(v, frag) == frag \in v.msg

(***************************************************************************)
(* DeferredPromise (util/DeferredPromise.js).                              *)
(***************************************************************************)
Pending == [state |-> "pending", value |-> Undefined]

Finished(d) == d.state \in {"fulfilled", "rejected"}

DeferredResolveOverwrites(d, v) == [state |-> "fulfilled", value |-> v]

DeferredResolve(d, v) ==
  IF Finished(d) THEN d ELSE [state |-> "fulfilled", value |-> v]

DeferredReject(d, e) ==
  IF Finished(d) THEN d ELSE [state |-> "rejected", value |-> e]

\* a truthy predicate result, as a value
Truthy(n) == Value(FALSE, TRUE, {}, n)

(***************************************************************************)
(* WaitTask.getBadError                                                    *)
(***************************************************************************)
GetBadErrorAllFatal(error) ==
  IF error.isError /\ Includes(error, FragDetached)
    THEN FrameDetachedError
    ELSE error

getBadError(error) ==
  IF error.isError /\ Includes(error, FragDetached)
    THEN FrameDetachedError
  ELSE IF error.isError /\ Includes(error, FragDestroyed)
    THEN Undefined
  ELSE IF error.isError /\ Includes(error, FragNotFound)
    THEN Undefined
  ELSE error


(***************************************************************************)
(* Pollers (injected/Poller.ts).  The record holds the remote object's     *)
(* fields, the evaluations of the predicate that are in flight, and the    *)
(* state of the JSHandle the controller holds on it.                       *)
(*   kind     "none" before construction, else the variant                 *)
(*   promise  #promise, state "unset" before start()                       *)
(*   init     the initial evaluation in start(): "none" | "pending" |      *)
(*            "truthy" | "falsy" | "raised"                                *)
(*   armed    the observer is connected / the interval is set / an         *)
(*            animation frame is requested                                 *)
(*   evals    evaluations started by watch callbacks and not yet returned  *)
(*   records  mutation records queued for the observer                     *)
(*   live     the context that holds the object still exists               *)
(*   disposed the handle has been disposed                                 *)
(***************************************************************************)
Unset == [state |-> "unset", value |-> Undefined]

NoPoller ==
  [kind |-> "none", promise |-> Unset, init |-> "none", armed |-> FALSE,
   evals |-> 0, records |-> 0, live |-> FALSE, disposed |-> FALSE]

\* new MutationPoller(fn, root) / new RAFPoller(fn) / new IntervalPoller(fn, ms)
NewPoller(kind) == [NoPoller EXCEPT !.kind = kind, !.live = TRUE]

\* what is left of a poller whose context was destroyed: only the handle
DeadPoller(q) ==
  IF q.kind = "none" THEN q ELSE [NoPoller EXCEPT !.kind = q.kind]

Started(q) == q.promise.state # "unset"

PredicateError == MkError({"predicate failed"})

\* the predicate's return value in the current page
PredicateValue == dom

\* start(), up to its first await: the promise is created, #fn() is called
PollerStart(q) ==
  [q EXCEPT !.promise = Pending, !.init = "pending"]

\* new MutationObserver(cb).observe(root) / requestAnimationFrame(poll) /
\* setInterval(cb, ms)
Arm(q) == [q EXCEPT !.armed = TRUE]

\* start(), after `await this.#fn()` returned v (0 is falsy)
StartResolvesAndArms(q, v) ==
  IF v # 0
    THEN Arm([q EXCEPT !.promise = DeferredResolve(q.promise, Truthy(v)),
                       !.init = "truthy"])
    ELSE Arm([q EXCEPT !.init = "falsy"])

StartContinues(q, v) ==
  IF v # 0
    THEN [q EXCEPT !.promise = DeferredResolve(q.promise, Truthy(v)),
                   !.init = "truthy"]
    ELSE Arm([q EXCEPT !.init = "falsy"])

\* start(), when `await this.#fn()` raised: start()'s own promise rejects
StartRaises(q) == [q EXCEPT !.init = "raised"]

\* stop() of the three variants (the assert is the caller's guard)
StopKeepsPending(q) ==
  [q EXCEPT !.armed = IF q.kind = "raf" THEN q.armed ELSE FALSE, !.records = 0]

MutationStop(q) ==
  [q EXCEPT !.promise = DeferredReject(q.promise, PollingStopped),
            !.armed = FALSE, !.records = 0]

RAFStop(q) ==
  [q EXCEPT !.promise = DeferredReject(q.promise, PollingStopped)]

IntervalStop(q) ==
  [q EXCEPT !.promise = DeferredReject(q.promise, PollingStopped),
            !.armed = FALSE]

PollerStop(q) ==
  CASE q.kind = "mutation" -> MutationStop(q)
    [] q.kind = "raf"      -> RAFStop(q)
    [] OTHER               -> IntervalStop(q)

\* the watch callback, up to its await: the observer callback takes the whole
\* batch of queued records, the interval callback and poll() take none
CallbackPerRecord(q) ==
  CASE q.kind = "mutation" -> [q EXCEPT !.records = 0, !.evals = @ + q.records]
    [] q.kind = "raf"      ->
         IF Finished(q.promise)
           THEN [q EXCEPT !.armed = FALSE]
           ELSE [q EXCEPT !.armed = FALSE, !.evals = @ + 1]
    [] OTHER               -> [q EXCEPT !.evals = @ + 1]

CallbackFires(q) ==
  CASE q.kind = "mutation" -> [q EXCEPT !.records = 0, !.evals = @ + 1]
    [] q.kind = "raf"      ->
         IF Finished(q.promise)
           THEN [q EXCEPT !.armed = FALSE]
           ELSE [q EXCEPT !.armed = FALSE, !.evals = @ + 1]
    [] OTHER               -> [q EXCEPT !.evals = @ + 1]

CanFire(q, cap) ==
  /\ q.live /\ q.armed
  /\ q.kind = "mutation" => q.records > 0
  /\ q.evals < cap

\* the watch callback, after `await this.#fn()` returned v
CallbackKeepsWatch(q, v) ==
  LET r == [q EXCEPT !.evals = @ - 1] IN
  IF v = 0
    THEN IF q.kind = "raf" THEN Arm(r) ELSE r
    ELSE [r EXCEPT !.promise = DeferredResolve(r.promise, Truthy(v))]

CallbackContinues(q, v) ==
  LET r == [q EXCEPT !.evals = @ - 1] IN
  IF v = 0
    THEN IF q.kind = "raf" THEN Arm(r) ELSE r
    ELSE PollerStop([r EXCEPT !.promise = DeferredResolve(r.promise, Truthy(v))])

\* the watch callback, when `await this.#fn()` raised
CallbackRaises(q) == [q EXCEPT !.evals = @ - 1]

\* a mutation of the observed tree queues a record for a connected observer
RecordQueued(q) ==
  IF q.live /\ q.kind = "mutation" /\ q.armed
    THEN [q EXCEPT !.records = @ + 1]
    ELSE q


(***************************************************************************)
(* Activations.  A frame is the position of one activation of rerun() or   *)
(* terminate(): pc names the call it awaits, p the handle the call was     *)
(* made on, fate what has become of the call ("ok" while it can succeed).  *)
(***************************************************************************)
Idle == [pc |-> "idle", p |-> 0, fate |-> "ok"]
Done == [pc |-> "done", p |-> 0, fate |-> "ok"]

Awaiting(pc, p, fate) == [pc |-> pc, p |-> p, fate |-> fate]

RunPcs      == {"bind", "create", "start", "await"}

\* a call made on a handle
HandleFate(q) ==
  IF ~q.live THEN "lost" ELSE IF q.disposed THEN "released" ELSE "ok"

\* a call made through the world (executionContext(), evaluateHandle)
WorldFate == IF detached THEN "detached" ELSE "ok"

\* the errors a call of that fate fails with: a call whose context was
\* destroyed fails with one of the two messages, by the time it was sent
FateErrors(f) ==
  CASE f = "lost"     -> {DestroyedError, NotFoundError}
    [] f = "released" -> {ReleasedError}
    [] OTHER          -> {DetachedError}

\* values executionContext(), _addBindingToContext() and the evaluateHandle()
\* that builds the poller may throw besides the errors of a lost context (a
\* malformed predicate, an argument that cannot be serialised, a rejected
\* binding): an Error, or any other value
Injected == {ProtocolError, Undefined}

Polls == {"raf", "mutation", "interval"}

NoOpts == [polling |-> "none", timeout |-> 0, bindings |-> FALSE]

Opt(p, ms, b) == [polling |-> p, timeout |-> ms, bindings |-> b]

\* the options the tasks of Spec are constructed with
Options ==
  {Opt("mutation", 100, FALSE), Opt("raf", 0, TRUE), Opt("interval", 100, TRUE)}

\* no call of rerunAll() is followed
NoCall == [pc |-> "none", runs |-> {}]

Constructed(t) == opts[t] # NoOpts

\* number of rerun() activations task t has had
NumRuns(t) == Cardinality({k \in RunIds : frames[t][k].pc # "idle"})

Init ==
  /\ tasks = {}
  /\ opts = [t \in TaskIds |-> NoOpts]
  /\ timer = [t \in TaskIds |-> "none"]
  /\ result = [t \in TaskIds |-> Pending]
  /\ pollerRef = [t \in TaskIds |-> 0]
  /\ frames = [t \in TaskIds |-> [i \in ProcIds |-> Idle]]
  /\ pollers = [t \in TaskIds |-> [k \in RunIds |-> NoPoller]]
  /\ dom = 0
  /\ navs = 0
  /\ detached = FALSE
  /\ boundFunctions = {}
  /\ rerunAllCall = NoCall

(***************************************************************************)
(* WaitTask.rerun, up to its first await.                                  *)
(***************************************************************************)
RerunEntry(o) ==
  IF o.bindings
    THEN Awaiting("bind", 0, WorldFate)
    ELSE Awaiting("create", 0, WorldFate)

(***************************************************************************)
(* WaitTask.terminate, up to its first await, as the new values of the     *)
(* task's fields.                                                          *)
(***************************************************************************)
TermTimerKeeps(tm) == tm

\* `if (this.#timeout) clearTimeout(this.#timeout)`
TermTimer(tm) == IF tm = "armed" THEN "cleared" ELSE tm

TermResultIgnoresError(r, error) == r

TermResult(r, error) ==
  IF error.truthy /\ ~Finished(r) THEN DeferredReject(r, error) ELSE r

\* `if (this.#poller)`: the call of poller.stop() is dispatched.  A call that
\* is bound to fail ends in the empty catch clause: the activation is over.
TermFrame(ref, ps) ==
  IF ref # 0 /\ HandleFate(ps[ref]) = "ok" THEN Awaiting("stop", ref, "ok") ELSE Done

\* the page runs poller.stop() up to its first await
TermPollers(ref, ps) ==
  IF ref # 0 /\ HandleFate(ps[ref]) = "ok" /\ Started(ps[ref])
    THEN [ps EXCEPT ![ref] = PollerStop(ps[ref])]
    ELSE ps

TerminateKeepsRegistered(t, i, tm, r, error) ==
  /\ tasks' = tasks
  /\ timer' = [timer EXCEPT ![t] = TermTimer(tm)]
  /\ result' = [result EXCEPT ![t] = TermResult(r, error)]
  /\ frames' = [frames EXCEPT ![t][i] = TermFrame(pollerRef[t], pollers[t])]
  /\ pollers' = [pollers EXCEPT ![t] = TermPollers(pollerRef[t], @)]
  /\ UNCHANGED pollerRef

\* terminate(error) called by activation i of task t, the task's timer and
\* result being tm and r at the call
Terminate(t, i, tm, r, error) ==
  /\ tasks' = tasks \ {t}
  /\ timer' = [timer EXCEPT ![t] = TermTimer(tm)]
  /\ result' = [result EXCEPT ![t] = TermResult(r, error)]
  /\ frames' = [frames EXCEPT ![t][i] = TermFrame(pollerRef[t], pollers[t])]
  /\ pollers' = [pollers EXCEPT ![t] = TermPollers(pollerRef[t], @)]
  /\ UNCHANGED pollerRef


Env == <<dom, navs, detached>>

(***************************************************************************)
(* new WaitTask(world, options, fn, ...args)                               *)
(***************************************************************************)
ArmTimerAlways(o) == "armed"

\* `if (options.timeout) this.#timeout = setTimeout(...)`
ArmTimer(o) == IF o.timeout # 0 THEN "armed" ELSE "none"

Construct(t, o) ==
  /\ ~Constructed(t)
  /\ \A u \in TaskIds : u < t => Constructed(u)
  /\ opts' = [opts EXCEPT ![t] = o]
  /\ tasks' = tasks \cup {t}
  /\ timer' = [timer EXCEPT ![t] = ArmTimer(o)]
  /\ boundFunctions' = IF o.bindings THEN boundFunctions \cup {t} ELSE boundFunctions
  /\ frames' = [frames EXCEPT ![t][1] = RerunEntry(o)]
  /\ UNCHANGED <<result, pollerRef, pollers, rerunAllCall, Env>>

(***************************************************************************)
(* The timeout callback: terminate(new TimeoutError(...))                  *)
(***************************************************************************)
TimerFires(t) ==
  /\ timer[t] = "armed"
  /\ Terminate(t, TimerProc, "fired", result[t], TimeoutError(opts[t].timeout))
  /\ UNCHANGED <<opts, boundFunctions, rerunAllCall, Env>>

(***************************************************************************)
(* TaskManager.terminateAll(error) and TaskManager.rerunAll()              *)
(***************************************************************************)
TerminateAll(error) ==
  /\ tasks # {}
  /\ tasks' = {}
  /\ timer' = [t \in TaskIds |-> IF t \in tasks THEN TermTimer(timer[t]) ELSE timer[t]]
  /\ result' = [t \in TaskIds |->
                  IF t \in tasks THEN TermResult(result[t], error) ELSE result[t]]
  /\ frames' = [t \in TaskIds |->
                  IF t \in tasks
                    THEN [frames[t] EXCEPT ![AllProc] = TermFrame(pollerRef[t], pollers[t])]
                    ELSE frames[t]]
  /\ pollers' = [t \in TaskIds |->
                  IF t \in tasks THEN TermPollers(pollerRef[t], pollers[t]) ELSE pollers[t]]
  /\ UNCHANGED <<opts, pollerRef, boundFunctions, rerunAllCall, Env>>

\* [...this.#tasks].map(task => task.rerun()): each registered task starts a run
StartRuns ==
  /\ tasks # {}
  /\ \A t \in tasks : NumRuns(t) < MaxRuns
  /\ frames' = [t \in TaskIds |->
                  IF t \in tasks
                    THEN [frames[t] EXCEPT ![NumRuns(t) + 1] = RerunEntry(opts[t])]
                    ELSE frames[t]]

RerunAll ==
  /\ StartRuns
  /\ UNCHANGED <<tasks, opts, timer, result, pollerRef, pollers, boundFunctions, rerunAllCall, Env>>

(***************************************************************************)
(* WaitTask.rerun: the catch clause.                                       *)
(***************************************************************************)
Catch(t, k, error) ==
  LET badError == getBadError(error) IN
  IF badError.truthy
    THEN Terminate(t, k, timer[t], result[t], badError)
    ELSE /\ frames' = [frames EXCEPT ![t][k] = Done]
         /\ UNCHANGED <<tasks, timer, result, pollerRef, pollers>>

\* the values the call awaited by run k of task t can throw
Thrown(t, k) ==
  LET f == frames[t][k] IN
  IF f.fate # "ok" THEN FateErrors(f.fate)
  ELSE IF f.pc \in {"bind", "create"} THEN Injected
  ELSE IF f.pc = "await" /\ pollers[t][f.p].promise.state = "rejected"
    THEN {pollers[t][f.p].promise.value}
  ELSE {}

\* an awaited call of run k fails with error
RunThrows(t, k, error) ==
  /\ frames[t][k].pc \in RunPcs
  /\ error \in Thrown(t, k)
  /\ Catch(t, k, error)
  /\ UNCHANGED <<opts, boundFunctions, rerunAllCall, Env>>

(***************************************************************************)
(* WaitTask.rerun: the continuations after each await.                     *)
(***************************************************************************)
\* executionContext() and _addBindingToContext() returned
BindReturns(t, k) ==
  /\ frames[t][k] = Awaiting("bind", 0, "ok")
  /\ frames' = [frames EXCEPT ![t][k] = Awaiting("create", 0, WorldFate)]
  /\ UNCHANGED <<tasks, opts, timer, result, pollerRef, pollers, boundFunctions, rerunAllCall, Env>>

\* evaluateHandle(... new XPoller(...)) returned: the handle is stored and
\* poller.start() is called through it
CreateReturns(t, k) ==
  /\ frames[t][k] = Awaiting("create", 0, "ok")
  /\ pollerRef' = [pollerRef EXCEPT ![t] = k]
  /\ pollers' = [pollers EXCEPT ![t][k] = PollerStart(NewPoller(opts[t].polling))]
  /\ frames' = [frames EXCEPT ![t][k] = Awaiting("start", k, "ok")]
  /\ UNCHANGED <<tasks, opts, timer, result, boundFunctions, rerunAllCall, Env>>

\* evaluate(poller => { poller.start(); }) returned: poller.result() is
\* awaited through the handle that #poller holds now
StartReturns(t, k) ==
  /\ frames[t][k].pc = "start" /\ frames[t][k].fate = "ok"
  /\ IF pollerRef[t] = 0
       THEN Catch(t, k, TypeError)
       ELSE /\ frames' = [frames EXCEPT ![t][k] =
                 Awaiting("await", pollerRef[t], HandleFate(pollers[t][pollerRef[t]]))]
            /\ UNCHANGED <<tasks, timer, result, pollerRef, pollers>>
  /\ UNCHANGED <<opts, boundFunctions, rerunAllCall, Env>>

\* evaluateHandle(poller => poller.result()) returned a handle to the value:
\* the task's result is resolved and terminate() is called
AwaitReturns(t, k) ==
  LET f == frames[t][k] IN
  /\ f.pc = "await" /\ f.fate = "ok"
  /\ pollers[t][f.p].promise.state = "fulfilled"
  /\ Terminate(t, k, timer[t],
               DeferredResolve(result[t], pollers[t][f.p].promise.value), Undefined)
  /\ UNCHANGED <<opts, boundFunctions, rerunAllCall, Env>>

(***************************************************************************)
(* WaitTask.terminate: the continuations after each await.                 *)
(***************************************************************************)
\* poller.stop() returned: `if (this.#poller)` dispose() is called
StopReturns(t, i) ==
  /\ frames[t][i].pc = "stop"
  /\ IF pollerRef[t] # 0
       THEN /\ frames' = [frames EXCEPT ![t][i] = Awaiting("dispose", pollerRef[t], "ok")]
            /\ pollers' = [pollers EXCEPT ![t][pollerRef[t]].disposed = TRUE]
       ELSE /\ frames' = [frames EXCEPT ![t][i] = Done]
            /\ UNCHANGED pollers
  /\ UNCHANGED <<tasks, opts, timer, result, pollerRef, boundFunctions, rerunAllCall, Env>>

\* dispose() returned: this.#poller = undefined
DisposeReturns(t, i) ==
  /\ frames[t][i].pc = "dispose"
  /\ pollerRef' = [pollerRef EXCEPT ![t] = 0]
  /\ frames' = [frames EXCEPT ![t][i] = Done]
  /\ UNCHANGED <<tasks, opts, timer, result, pollers, boundFunctions, rerunAllCall, Env>>

\* an activation that ended by throwing to its caller
Failed == [pc |-> "failed", p |-> 0, fate |-> "ok"]

CleanupEscapes == Failed

\* `catch { }` around stop() and dispose(): terminate() returns normally
CleanupCaught == Done

\* poller.stop() or dispose() failed: the catch clause ignores it
CleanupThrows(t, i) ==
  /\ frames[t][i].pc \in {"stop", "dispose"}
  /\ frames' = [frames EXCEPT ![t][i] = CleanupCaught]
  /\ UNCHANGED <<tasks, opts, timer, result, pollerRef, pollers, boundFunctions, rerunAllCall, Env>>


(***************************************************************************)
(* The page: the pollers' evaluations and watch callbacks.                 *)
(***************************************************************************)
Ctl == <<tasks, opts, timer, result, pollerRef, frames, boundFunctions,
         rerunAllCall>>

\* start(): `await this.#fn()` returns
InitEvalReturns(t, k) ==
  /\ pollers[t][k].live /\ pollers[t][k].init = "pending"
  /\ pollers' = [pollers EXCEPT ![t][k] = StartContinues(@, PredicateValue)]
  /\ UNCHANGED <<Ctl, Env>>

\* start(): `await this.#fn()` raises
InitEvalRaises(t, k) ==
  /\ pollers[t][k].live /\ pollers[t][k].init = "pending"
  /\ pollers' = [pollers EXCEPT ![t][k] = StartRaises(@)]
  /\ UNCHANGED <<Ctl, Env>>

\* the observer callback / the interval callback / poll() is called (cap bounds
\* the evaluations in flight)
WatchFires(t, k, cap) ==
  /\ CanFire(pollers[t][k], cap)
  /\ pollers' = [pollers EXCEPT ![t][k] = CallbackFires(@)]
  /\ UNCHANGED <<Ctl, Env>>

\* the callback's `await this.#fn()` returns
EvalReturns(t, k) ==
  /\ pollers[t][k].live /\ pollers[t][k].evals > 0
  /\ pollers' = [pollers EXCEPT ![t][k] = CallbackContinues(@, PredicateValue)]
  /\ UNCHANGED <<Ctl, Env>>

\* the callback's `await this.#fn()` raises
EvalRaises(t, k) ==
  /\ pollers[t][k].live /\ pollers[t][k].evals > 0
  /\ pollers' = [pollers EXCEPT ![t][k] = CallbackRaises(@)]
  /\ UNCHANGED <<Ctl, Env>>

\* the observed tree changes (cap bounds the number of changes)
Mutate(cap) ==
  /\ ~detached /\ dom < cap
  /\ dom' = dom + 1
  /\ pollers' = [t \in TaskIds |-> [k \in RunIds |-> RecordQueued(pollers[t][k])]]
  /\ UNCHANGED <<Ctl, navs, detached>>

(***************************************************************************)
(* The context provider: the context is replaced (navigation) or the frame *)
(* is detached.  The objects of the old context are gone and the calls in  *)
(* flight fail.                                                            *)
(***************************************************************************)
Lost(f) ==
  IF f.pc \in RunPcs /\ f.fate = "ok" THEN [f EXCEPT !.fate = "lost"]
  ELSE IF f.pc = "stop" THEN Done
  ELSE f

ContextLost ==
  /\ pollers' = [t \in TaskIds |-> [k \in RunIds |-> DeadPoller(pollers[t][k])]]
  /\ frames' = [t \in TaskIds |-> [i \in ProcIds |-> Lost(frames[t][i])]]
  /\ UNCHANGED <<tasks, opts, timer, result, pollerRef, boundFunctions, rerunAllCall>>

Navigate ==
  /\ ~detached /\ navs < MaxNav
  /\ navs' = navs + 1
  /\ dom' = 0
  /\ ContextLost
  /\ UNCHANGED detached

Detach ==
  /\ ~detached
  /\ detached' = TRUE
  /\ ContextLost
  /\ UNCHANGED <<dom, navs>>

(***************************************************************************)
(* The program.                                                            *)
(***************************************************************************)
Next ==
  \/ \E t \in 1 .. NumTasks, o \in Options : Construct(t, o)
  \/ \E t \in TaskIds : TimerFires(t)
  \/ \E e \in {Undefined, OwnerError} : TerminateAll(e)
  \/ RerunAll
  \/ \E t \in TaskIds, k \in RunIds : \E e \in Thrown(t, k) : RunThrows(t, k, e)
  \/ \E t \in TaskIds, k \in RunIds : BindReturns(t, k)
  \/ \E t \in TaskIds, k \in RunIds : CreateReturns(t, k)
  \/ \E t \in TaskIds, k \in RunIds : StartReturns(t, k)
  \/ \E t \in TaskIds, k \in RunIds : AwaitReturns(t, k)
  \/ \E t \in TaskIds, i \in ProcIds : StopReturns(t, i)
  \/ \E t \in TaskIds, i \in ProcIds : DisposeReturns(t, i)
  \/ \E t \in TaskIds, i \in ProcIds : CleanupThrows(t, i)
  \/ \E t \in TaskIds, k \in RunIds : InitEvalReturns(t, k)
  \/ \E t \in TaskIds, k \in RunIds : WatchFires(t, k, MaxEvals)
  \/ \E t \in TaskIds, k \in RunIds : EvalReturns(t, k)
  \/ Mutate(MaxDom)
  \/ Navigate
  \/ Detach

Spec == Init /\ [][Next]_vars


(***************************************************************************)
(* The pollers alone: a poller of each variant is constructed in the page  *)
(* and a caller starts it once and stops it at any time, any number of     *)
(* times, while the page changes.                                          *)
(***************************************************************************)
InitPoller ==
  /\ tasks = {}
  /\ opts = [t \in TaskIds |-> NoOpts]
  /\ timer = [t \in TaskIds |-> "none"]
  /\ result = [t \in TaskIds |-> Pending]
  /\ pollerRef = [t \in TaskIds |-> 0]
  /\ frames = [t \in TaskIds |-> [i \in ProcIds |-> Idle]]
  /\ \E kind \in Polls :
       pollers = [t \in TaskIds |-> [k \in RunIds |->
                    IF t = 1 /\ k = 1 THEN NewPoller(kind) ELSE NoPoller]]
  /\ dom = 0
  /\ navs = 0
  /\ detached = FALSE
  /\ boundFunctions = {}
  /\ rerunAllCall = NoCall

\* assert(this.#promise, 'Polling never started.')
StopRaises(q) == ~Started(q)

\* poller.start()
CallStart(t, k) ==
  /\ pollers[t][k].live /\ ~Started(pollers[t][k])
  /\ pollers' = [pollers EXCEPT ![t][k] = PollerStart(@)]
  /\ UNCHANGED <<Ctl, Env>>

\* poller.stop()
CallStop(t, k) ==
  /\ pollers[t][k].live
  /\ pollers' = [pollers EXCEPT ![t][k] = IF StopRaises(@) THEN @ ELSE PollerStop(@)]
  /\ UNCHANGED <<Ctl, Env>>

NextPoller ==
  \/ \E t \in TaskIds, k \in RunIds : CallStart(t, k)
  \/ \E t \in TaskIds, k \in RunIds : CallStop(t, k)
  \/ \E t \in TaskIds, k \in RunIds : InitEvalReturns(t, k)
  \/ \E t \in TaskIds, k \in RunIds : InitEvalRaises(t, k)
  \/ \E t \in TaskIds, k \in RunIds : WatchFires(t, k, MaxOverlap)
  \/ \E t \in TaskIds, k \in RunIds : EvalReturns(t, k)
  \/ \E t \in TaskIds, k \in RunIds : EvalRaises(t, k)
  \/ Mutate(MaxChanges)

SpecPoller == InitPoller /\ [][NextPoller]_vars

PollerIds == TaskIds \X RunIds

Poller(id) == pollers[id[1]][id[2]]


\* an awaited call of run k fails for a reason other than an injected one
RunFails(t, k) == \E e \in Thrown(t, k) \ Injected : RunThrows(t, k, e)

(***************************************************************************)
(* Several tasks under one TaskManager, in a context that stays.           *)
(***************************************************************************)
ManagedOptions == {Opt("interval", 100, FALSE), Opt("mutation", 0, FALSE)}

NextManager ==
  \/ \E t \in TaskIds, o \in ManagedOptions : Construct(t, o)
  \/ \E t \in TaskIds : TimerFires(t)
  \/ \E e \in {Undefined, OwnerError} : TerminateAll(e)
  \/ \E t \in TaskIds, k \in RunIds : RunFails(t, k)
  \/ \E t \in TaskIds, k \in RunIds : CreateReturns(t, k)
  \/ \E t \in TaskIds, k \in RunIds : StartReturns(t, k)
  \/ \E t \in TaskIds, k \in RunIds : AwaitReturns(t, k)
  \/ \E t \in TaskIds, i \in ProcIds : StopReturns(t, i)
  \/ \E t \in TaskIds, i \in ProcIds : DisposeReturns(t, i)
  \/ \E t \in TaskIds, k \in RunIds : InitEvalReturns(t, k)
  \/ \E t \in TaskIds, k \in RunIds : WatchFires(t, k, MaxEvals)
  \/ \E t \in TaskIds, k \in RunIds : EvalReturns(t, k)
  \/ Mutate(MaxDom)

SpecManager == Init /\ [][NextManager]_vars

(***************************************************************************)
(* A task whose collaborators are healthy: calls fail only because the     *)
(* context was replaced, the predicate does not raise, and the owner calls *)
(* rerunAll() for the tasks that wait for a new context.  Every step of    *)
(* the program that is due is eventually taken.                            *)
(***************************************************************************)
LiveOptions == [polling : Polls, timeout : {0, 100}, bindings : {FALSE}]

\* task t is registered and none of its runs is in progress
Waiting(t) ==
  /\ t \in tasks
  /\ \A k \in RunIds : frames[t][k].pc \in {"idle", "done"}

OwnerRerunAll == (\E t \in tasks : Waiting(t)) /\ RerunAll

NextLive ==
  \/ \E t \in 1 .. NumTasks, o \in LiveOptions : Construct(t, o)
  \/ \E t \in TaskIds : TimerFires(t)
  \/ OwnerRerunAll
  \/ \E t \in TaskIds, k \in RunIds : RunFails(t, k)
  \/ \E t \in TaskIds, k \in RunIds : CreateReturns(t, k)
  \/ \E t \in TaskIds, k \in RunIds : StartReturns(t, k)
  \/ \E t \in TaskIds, k \in RunIds : AwaitReturns(t, k)
  \/ \E t \in TaskIds, i \in ProcIds : StopReturns(t, i)
  \/ \E t \in TaskIds, i \in ProcIds : DisposeReturns(t, i)
  \/ \E t \in TaskIds, k \in RunIds : InitEvalReturns(t, k)
  \/ \E t \in TaskIds, k \in RunIds : WatchFires(t, k, MaxEvals)
  \/ \E t \in TaskIds, k \in RunIds : EvalReturns(t, k)
  \/ Mutate(MaxDom)
  \/ Navigate

Fairness ==
  /\ \A t \in TaskIds : WF_vars(TimerFires(t))
  /\ WF_vars(OwnerRerunAll)
  /\ \A t \in TaskIds, k \in RunIds :
       /\ WF_vars(RunFails(t, k))
       /\ WF_vars(CreateReturns(t, k))
       /\ WF_vars(StartReturns(t, k))
       /\ WF_vars(AwaitReturns(t, k))
       /\ WF_vars(InitEvalReturns(t, k))
       /\ WF_vars(WatchFires(t, k, MaxEvals))
       /\ WF_vars(EvalReturns(t, k))
  /\ \A t \in TaskIds, i \in ProcIds :
       /\ WF_vars(StopReturns(t, i))
       /\ WF_vars(DisposeReturns(t, i))

SpecLive == Init /\ [][NextLive]_vars /\ Fairness

(***************************************************************************)
(* One call of rerunAll() followed to its end: `await Promise.all(...)` on *)
(* the promises of the runs it started, several tasks being registered.    *)
(***************************************************************************)
RerunOptions == {Opt("interval", 100, FALSE), Opt("mutation", 0, FALSE)}

ReturnedOrRunning(f) == TRUE

\* the promise rerun() returned is resolved
Returned(f) == f.pc = "done"

\* rerunAll() is called (by the owner, for tasks that wait for a context):
\* the runs are started and Promise.all awaits them
RerunAllCalled ==
  /\ rerunAllCall.pc # "waiting"
  /\ \A t \in tasks : Waiting(t)
  /\ StartRuns
  /\ rerunAllCall' = [pc |-> "waiting", runs |-> {<<t, NumRuns(t) + 1>> : t \in tasks}]
  /\ UNCHANGED <<tasks, opts, timer, result, pollerRef, pollers, boundFunctions, Env>>

\* Promise.all settles: rejected as soon as one of the runs has thrown,
\* resolved when all of them have returned
RerunAllSettles ==
  /\ rerunAllCall.pc = "waiting"
  /\ IF \E r \in rerunAllCall.runs : frames[r[1]][r[2]] = Failed
       THEN rerunAllCall' = [rerunAllCall EXCEPT !.pc = "failed"]
       ELSE /\ \A r \in rerunAllCall.runs : Returned(frames[r[1]][r[2]])
            /\ rerunAllCall' = [rerunAllCall EXCEPT !.pc = "returned"]
  /\ UNCHANGED <<tasks, opts, timer, result, pollerRef, frames, pollers,
                 boundFunctions, Env>>

NextRerun ==
  \/ \E t \in TaskIds, o \in RerunOptions : Construct(t, o)
  \/ \E t \in TaskIds : TimerFires(t)
  \/ RerunAllCalled
  \/ RerunAllSettles
  \/ \E t \in TaskIds, k \in RunIds : RunFails(t, k)
  \/ \E t \in TaskIds, k \in RunIds : CreateReturns(t, k)
  \/ \E t \in TaskIds, k \in RunIds : StartReturns(t, k)
  \/ \E t \in TaskIds, k \in RunIds : AwaitReturns(t, k)
  \/ \E t \in TaskIds, i \in ProcIds : StopReturns(t, i)
  \/ \E t \in TaskIds, i \in ProcIds : DisposeReturns(t, i)
  \/ \E t \in TaskIds, i \in ProcIds : CleanupThrows(t, i)
  \/ \E t \in TaskIds, k \in RunIds : InitEvalReturns(t, k)
  \/ \E t \in TaskIds, k \in RunIds : WatchFires(t, k, MaxEvals)
  \/ \E t \in TaskIds, k \in RunIds : EvalReturns(t, k)
  \/ Mutate(MaxDom)
  \/ Navigate
  \/ Detach

SpecRerun == Init /\ [][NextRerun]_vars

(***************************************************************************)
(* Properties of the pollers (checked under SpecPoller).                   *)
(***************************************************************************)
Rejected(e) == [state |-> "rejected", value |-> e]
Fulfilled(v) == [state |-> "fulfilled", value |-> v]

\* C6: whenever the predicate raises, in the initial evaluation of start()
\* or in an evaluation made by a watch callback, the poller's result is
\* rejected with that failure.
C6_PredicateFailureRejects ==
  [][\A id \in PollerIds :
       (InitEvalRaises(id[1], id[2]) \/ EvalRaises(id[1], id[2]))
         => pollers'[id[1]][id[2]].promise = Rejected(PredicateError)]_vars

\* C8 as stated: a watch is armed, and a watch callback evaluates, only after
\* the initial evaluation has returned falsy; a truthy initial evaluation
\* fulfils the result with its value, and the poller is never armed.
C8_TruthyInitialFulfils ==
  /\ [](\A id \in PollerIds :
          /\ (Poller(id).armed \/ Poller(id).evals > 0) => Poller(id).init = "falsy"
          /\ Poller(id).init = "truthy" => ~Poller(id).armed)
  /\ [][\A id \in PollerIds :
          (InitEvalReturns(id[1], id[2]) /\ PredicateValue # 0)
            => pollers'[id[1]][id[2]].promise = Fulfilled(Truthy(PredicateValue))]_vars

\* C8 amended: a watch is armed, and a watch callback evaluates, only after
\* the initial evaluation has returned falsy; a truthy initial evaluation
\* fulfils the result with its value unless stop() has already rejected it,
\* and the poller is never armed.
C8_InitialBeforeWatch ==
  /\ [](\A id \in PollerIds :
          /\ (Poller(id).armed \/ Poller(id).evals > 0) => Poller(id).init = "falsy"
          /\ Poller(id).init = "truthy" => ~Poller(id).armed /\ Finished(Poller(id).promise))
  /\ [][\A id \in PollerIds :
          (InitEvalReturns(id[1], id[2]) /\ PredicateValue # 0)
            => pollers'[id[1]][id[2]].promise =
                 IF Poller(id).promise = Pending
                   THEN Fulfilled(Truthy(PredicateValue))
                   ELSE Rejected(PollingStopped)]_vars

\* the initial evaluation returned truthy and fulfilled the result
C8_Witness ==
  \E id \in PollerIds :
    /\ Poller(id).init = "truthy"
    /\ Poller(id).promise.state = "fulfilled"

\* C9: stop() on a started poller does not raise; it rejects an unsettled
\* result with 'Polling stopped' and leaves a settled one as it is; stopping
\* twice is the same as stopping once.
C9_StopIdempotent ==
  /\ [](\A id \in PollerIds :
          Started(Poller(id)) =>
            /\ ~StopRaises(Poller(id))
            /\ PollerStop(PollerStop(Poller(id))) = PollerStop(Poller(id)))
  /\ [][\A id \in PollerIds :
          (CallStop(id[1], id[2]) /\ Started(Poller(id)))
            => pollers'[id[1]][id[2]].promise =
                 IF Poller(id).promise = Pending
                   THEN Rejected(PollingStopped)
                   ELSE Poller(id).promise]_vars

\* stop() has rejected the result of a started poller
C9_Witness ==
  \E id \in PollerIds :
    /\ Poller(id).promise = Rejected(PollingStopped)
    /\ Poller(id).init \in {"pending", "falsy"}


(***************************************************************************)
(* Properties of WaitTask and TaskManager.                                 *)
(***************************************************************************)
Recoverable == {DestroyedError, NotFoundError}

\* C1: once a task's result is fulfilled or rejected, its settlement never
\* changes again, whatever runs, timers, terminate calls and manager calls
\* follow.
C1_SettledOnce ==
  [][\A t \in TaskIds : Finished(result[t]) => result'[t] = result[t]]_vars

\* the result is fulfilled and a run is about to fail with the rejection of
\* its stopped poller, which makes it call terminate(error)
C1_Witness ==
  \E t \in TaskIds, k \in RunIds :
    /\ result[t].state = "fulfilled"
    /\ frames[t][k].pc = "await" /\ frames[t][k].fate = "ok"
    /\ pollers[t][frames[t][k].p].promise = Rejected(PollingStopped)

\* C2: the timer firing on an unsettled result rejects it with the timeout
\* error, and nothing that arrives later changes a result rejected by timeout.
C2_TimeoutWins ==
  [][\A t \in TaskIds :
       /\ (TimerFires(t) /\ ~Finished(result[t]))
            => result'[t] = Rejected(TimeoutError(opts[t].timeout))
       /\ result[t] = Rejected(TimeoutError(opts[t].timeout))
            => result'[t] = result[t]]_vars

\* the result was rejected by timeout and a run still awaits a poller whose
\* result is truthy
C2_Witness ==
  \E t \in TaskIds, k \in RunIds :
    /\ result[t] = Rejected(TimeoutError(opts[t].timeout))
    /\ frames[t][k].pc = "await" /\ frames[t][k].fate = "ok"
    /\ pollers[t][frames[t][k].p].promise.state = "fulfilled"

\* C3: a run that fails with a recoverable error leaves the registry, the
\* timer and the result as they are, and no result is ever rejected with a
\* recoverable error.
C3_RecoverableSwallowed ==
  /\ [](\A t \in TaskIds : \A e \in Recoverable : result[t] # Rejected(e))
  /\ [][\A t \in TaskIds, k \in RunIds : \A e \in Recoverable :
          RunThrows(t, k, e)
            => tasks' = tasks /\ result' = result /\ timer' = timer]_vars

\* a run has failed recoverably: the task is registered, unsettled, and no
\* run of it is in progress
C3_Witness ==
  \E t \in TaskIds :
    /\ Waiting(t) /\ ~Finished(result[t])
    /\ frames[t][1].pc = "done"
    /\ pollers[t][1].kind # "none"

\* C7: a run that fails with a value e terminates the task with 'Frame
\* detached' when e's message says the frame is detached, changes nothing
\* when e's message says the context was destroyed or cannot be found, and
\* otherwise terminates the task, rejecting an unsettled result with e itself.
C7_Classification ==
  [][\A t \in TaskIds, k \in RunIds : \A e \in Thrown(t, k) :
       RunThrows(t, k, e) =>
         IF e.isError /\ Includes(e, FragDetached)
           THEN /\ t \notin tasks'
                /\ ~Finished(result[t]) => result'[t] = Rejected(FrameDetachedError)
         ELSE IF e.isError /\ (Includes(e, FragDestroyed) \/ Includes(e, FragNotFound))
           THEN tasks' = tasks /\ result' = result
         ELSE /\ t \notin tasks'
              /\ ~Finished(result[t]) => result'[t] = Rejected(e)]_vars

\* C5: terminateAll(err) with an error err rejects the result of every task
\* that was registered with exactly err and leaves the registry empty.
C5_TerminateAllRejects ==
  [][\A e \in {OwnerError} :
       TerminateAll(e)
         => /\ tasks' = {}
            /\ \A t \in tasks : result'[t] = Rejected(e)]_vars

\* terminateAll(err) has rejected the results of all the tasks at once
C5_Witness ==
  /\ tasks = {}
  /\ \A t \in TaskIds : result[t] = Rejected(OwnerError)
  /\ \A t \in TaskIds : frames[t][AllProc].pc # "idle"

(***************************************************************************)
(* Properties of a task in a healthy environment (checked under SpecLive). *)
(***************************************************************************)
IsTimeout(d) == d.state = "rejected" /\ Includes(d.value, "ms exceeded")

\* C4: a task without timeout that waits for a re-run after a recoverable
\* failure is eventually fulfilled, provided the predicate ends up truthy,
\* and its result is never rejected.
C4_RecoversAfterRerun ==
  /\ [](\A t \in TaskIds : opts[t].timeout = 0 => result[t].state # "rejected")
  /\ (<>[](dom > 0)) =>
       \A t \in TaskIds :
         [](Waiting(t) /\ opts[t].timeout = 0 /\ frames[t][1].pc = "done"
              => <>(result[t].state = "fulfilled"))

\* the task was fulfilled by its second run, the first having failed
\* recoverably
C4_Witness ==
  \E t \in TaskIds :
    /\ opts[t].timeout = 0
    /\ result[t].state = "fulfilled"
    /\ frames[t][1] = Done /\ pollers[t][1] = DeadPoller(pollers[t][1])
    /\ pollers[t][2].promise.state = "fulfilled"

\* C10: a task with a non-zero timeout whose predicate never returns truthy
\* is eventually rejected with the timeout error, re-runs included; a task
\* with timeout 0 has no timer and is never rejected by timeout.
C10_TimesOut ==
  /\ [](\A t \in TaskIds :
          (Constructed(t) /\ opts[t].timeout = 0)
            => timer[t] = "none" /\ ~IsTimeout(result[t]))
  /\ ([](dom = 0)) =>
       \A t \in TaskIds :
         []((Constructed(t) /\ opts[t].timeout # 0)
              => <>(result[t] = Rejected(TimeoutError(opts[t].timeout))))

\* the task timed out after it had been re-run, the predicate never truthy
C10_Witness ==
  \E t \in TaskIds :
    /\ result[t] = Rejected(TimeoutError(100))
    /\ NumRuns(t) = 2
    /\ dom = 0


(***************************************************************************)
(* Further properties of the pollers (checked under SpecPoller).           *)
(***************************************************************************)
\* C11 as stated: when the evaluation of a watch callback returns truthy the
\* result is fulfilled, with that value if none was reported before, and the
\* poller is disarmed; a fulfilled result never changes.
C11_TruthyCallbackFulfils ==
  [][\A id \in PollerIds :
       /\ (EvalReturns(id[1], id[2]) /\ PredicateValue # 0)
            => /\ pollers'[id[1]][id[2]].promise =
                    IF Poller(id).promise.state = "fulfilled"
                      THEN Poller(id).promise
                      ELSE Fulfilled(Truthy(PredicateValue))
               /\ ~pollers'[id[1]][id[2]].armed
       /\ Poller(id).promise.state = "fulfilled"
            => pollers'[id[1]][id[2]].promise = Poller(id).promise]_vars

\* C11 amended: when the evaluation of a watch callback returns truthy, a
\* result that is still unsettled is fulfilled with that value, a result that
\* is settled (fulfilled earlier, or rejected by stop()) is left as it is, and
\* the poller is disarmed; a fulfilled result never changes.
C11_FirstTruthyWins ==
  [][\A id \in PollerIds :
       /\ (EvalReturns(id[1], id[2]) /\ PredicateValue # 0)
            => /\ pollers'[id[1]][id[2]].promise =
                    IF Poller(id).promise = Pending
                      THEN Fulfilled(Truthy(PredicateValue))
                      ELSE Poller(id).promise
               /\ ~pollers'[id[1]][id[2]].armed
       /\ Poller(id).promise.state = "fulfilled"
            => pollers'[id[1]][id[2]].promise = Poller(id).promise]_vars

\* a callback reported 1 first; every evaluation has returned since, the page
\* having changed again, and the poller is disarmed
C11_Witness ==
  \E id \in PollerIds :
    /\ Poller(id).init = "falsy"
    /\ Poller(id).promise = Fulfilled(Truthy(1))
    /\ Poller(id).evals = 0 /\ ~Poller(id).armed
    /\ dom = 2

\* C12: once stop() has rejected the result, an evaluation that returns
\* (the initial one or a callback's) leaves the result as it is and arms no
\* watch mechanism, and no evaluation of the predicate starts any more.
C12_InFlightIgnored ==
  [][\A id \in PollerIds :
       Poller(id).promise = Rejected(PollingStopped)
         => /\ pollers'[id[1]][id[2]].promise = Poller(id).promise
            /\ pollers'[id[1]][id[2]].evals <= Poller(id).evals
            /\ (InitEvalReturns(id[1], id[2]) \/ EvalReturns(id[1], id[2]))
                 => ~pollers'[id[1]][id[2]].armed]_vars


\* C15: a firing of the MutationPoller's observer callback takes all the
\* queued change records and starts exactly one evaluation of the predicate.
C15_OneEvaluationPerBatch ==
  [][\A id \in PollerIds :
       (Poller(id).kind = "mutation" /\ WatchFires(id[1], id[2], MaxOverlap))
         => /\ Poller(id).records >= 1
            /\ pollers'[id[1]][id[2]].records = 0
            /\ pollers'[id[1]][id[2]].evals = Poller(id).evals + 1]_vars

\* two changes were delivered to the observer in one batch: one evaluation is
\* in flight and no record is left
C15_Witness ==
  \E id \in PollerIds :
    /\ Poller(id).kind = "mutation"
    /\ Poller(id).armed /\ Poller(id).promise = Pending
    /\ dom = 2
    /\ Poller(id).records = 0 /\ Poller(id).evals = 1

(***************************************************************************)
(* Further properties of WaitTask and TaskManager.                         *)
(***************************************************************************)
\* task t was constructed and terminate has run on it
Terminated(t) == Constructed(t) /\ t \notin tasks

\* C13: once terminate has run on a task, no later step (a later terminate
\* from a run's catch clause or completion included) changes the registry,
\* the task's timer or the settlement of its result; only the resolve() that
\* precedes terminate() at the end of a successful run may settle the result.
C13_TerminateIdempotent ==
  [][\A t \in TaskIds :
       Terminated(t)
         => /\ t \notin tasks'
            /\ timer'[t] = timer[t]
            /\ result'[t] = result[t] \/ \E k \in RunIds : AwaitReturns(t, k)]_vars

\* C19: a task that has been removed from the registry has a settled result.
C19_NoWaitAbandoned ==
  \A t \in TaskIds : Terminated(t) => Finished(result[t])


\* every activation of rerun() and terminate() of task t has returned
AllReturned(t) == \A i \in ProcIds : frames[t][i].pc \in {"idle", "done"}

\* the poller's watch mechanism will evaluate the predicate again (a requested
\* animation frame does not when the result is settled: poll() returns)
Watching(q) == q.armed /\ (q.kind = "raf" => ~Finished(q.promise))

\* C14: once a task is terminated and all its runs have returned, every
\* poller it created that still exists in the page is disarmed and its
\* handle disposed.
C14_PollersReleased ==
  \A t \in TaskIds :
    (Terminated(t) /\ AllReturned(t))
      => \A k \in RunIds :
           pollers[t][k].live => ~Watching(pollers[t][k]) /\ pollers[t][k].disposed


\* C17: a failure of poller.stop() or of dispose() inside terminate leaves
\* the registry, the timer and the settlement of every result as they are and
\* terminate returns normally; no activation ever ends by throwing.
C17_CleanupFailureSwallowed ==
  /\ [](\A t \in TaskIds, i \in ProcIds : frames[t][i] # Failed)
  /\ [][\A t \in TaskIds, i \in ProcIds :
          CleanupThrows(t, i)
            => /\ frames'[t][i] = Done
               /\ result' = result /\ tasks' = tasks /\ timer' = timer]_vars

\* a run fulfilled the result and returned from terminate() although its
\* poller was not disposed and #poller not cleared: the cleanup had failed
C17_Witness ==
  \E t \in TaskIds, k \in RunIds :
    /\ result[t].state = "fulfilled"
    /\ AllReturned(t)
    /\ pollerRef[t] = k
    /\ pollers[t][k].live /\ ~pollers[t][k].disposed
    /\ pollers[t][k].promise = result[t]


\* C18: a task enters the registry only when it is constructed, a registered
\* task always has an unsettled result, and rerunAll() starts runs only of
\* tasks whose result is unsettled.
C18_RegistryInvariant ==
  /\ [](\A t \in tasks : Constructed(t) /\ ~Finished(result[t]))
  /\ [][\A t \in TaskIds : (t \in tasks' /\ t \notin tasks) => ~Constructed(t)]_vars
  /\ [][RerunAll => \A t \in TaskIds :
                      frames'[t] # frames[t] => ~Finished(result[t])]_vars

\* the result was settled and the task removed while a run started by
\* rerunAll() was in progress
C18_Witness ==
  \E t \in TaskIds :
    /\ Finished(result[t]) /\ t \notin tasks
    /\ frames[t][1].pc = "done"
    /\ frames[t][2].pc \in RunPcs

\* C20: the timer is armed only by the constructor, rerunAll() leaves it as
\* it is, a terminated task has no pending timer, and the timer never fires
\* on a task whose result is fulfilled.
C20_TimerArmedOnce ==
  /\ [](\A t \in TaskIds : Terminated(t) => timer[t] # "armed")
  /\ [][\A t \in TaskIds :
          /\ (timer'[t] = "armed" /\ timer[t] # "armed") => ~Constructed(t)
          /\ RerunAll => timer'[t] = timer[t]
          /\ TimerFires(t) => result[t].state # "fulfilled"]_vars

\* the task was fulfilled by a re-run and its timer cancelled
C20_Witness ==
  \E t \in TaskIds :
    /\ result[t].state = "fulfilled"
    /\ timer[t] = "cleared"
    /\ NumRuns(t) = 2


(***************************************************************************)
(* Properties of TaskManager.rerunAll (checked under SpecRerun).           *)
(***************************************************************************)
\* the task is resolved, or terminated with an error, or registered and
\* waiting with its result unsettled
Stable(t) ==
  \/ result[t].state = "fulfilled"
  \/ t \notin tasks /\ result[t].state = "rejected"
  \/ t \in tasks /\ result[t] = Pending

\* C16: a call of rerunAll() starts one run of every registered task and of
\* no other task; it completes only when each of these runs has returned,
\* the task being then resolved, terminated with an error or still waiting;
\* and it never fails.
C16_RerunAllAwaitsRuns ==
  /\ [](rerunAllCall.pc # "failed")
  /\ [](rerunAllCall.pc = "returned"
          => \A r \in rerunAllCall.runs :
               frames[r[1]][r[2]].pc = "done" /\ Stable(r[1]))
  /\ [][RerunAllCalled
          => \A t \in TaskIds :
               IF t \in tasks
                 THEN /\ frames'[t][NumRuns(t) + 1].pc \in {"bind", "create"}
                      /\ <<t, NumRuns(t) + 1>> \in rerunAllCall'.runs
                      /\ \A k \in RunIds :
                           k # NumRuns(t) + 1 => frames'[t][k] = frames[t][k]
                 ELSE frames'[t] = frames[t]]_vars

\* a call that re-ran both tasks has completed: one task was resolved by its
\* re-run, the other was rejected
C16_Witness ==
  /\ rerunAllCall.pc = "returned"
  /\ rerunAllCall.runs = {<<1, 2>>, <<2, 2>>}
  /\ \E t, u \in TaskIds :
       result[t].state = "fulfilled" /\ result[u].state = "rejected"

=============================================================================
